---- MODULE Spec2Model ----
(***************************************************************************)
(* scripts/add-dynamic-export.py: a batch edit that inserts the            *)
(* "export const dynamic" directive into the API route files that use      *)
(* getServerSession.                                                       *)
(*                                                                         *)
(* A file's text is a sequence of symbols.  The keywords the script looks  *)
(* at are one symbol each, a space and a newline are one symbol each, and  *)
(* W is a run of any other characters (no newline, no keyword, no space at *)
(* either end).  Symbols are concatenated without separators, so           *)
(* <<W, EXPORT>> is the text "xexport".                                    *)
(***************************************************************************)
EXTENDS Integers, Sequences, FiniteSets, TLC

VARIABLES
    fs,             \* disk: route -> text of the file at that path
    attr,           \* disk: route -> "ok" | "missing" | "unreadable" |
                    \*   "readonly" | "failing" (writes to it raise OSError)
    canEncode,      \* stdout's encoding can represent the status symbols
    run,            \* which execution of the script this is (1 or 2)
    pc,             \* position in main / add_dynamic_export
    route,          \* main: index of the loop variable `route` in API_ROUTES
    content,        \* add_dynamic_export: local `content`
    match,          \* add_dynamic_export: match.end(1), 0 when match is None
    new_content,    \* add_dynamic_export: local `new_content`
    result,         \* return value of the current call: "none" | "True" | "False"
    updated_count,  \* main: local `updated_count`
    reported,       \* status lines printed by the current call
    summary,        \* count printed by the final line of main, -1 before it
    calls,          \* routes add_dynamic_export was invoked on, this run
    io,             \* file opens of this run, in order: [op, file]
    fs0,            \* disk text when this run started
    fsCall          \* disk text when the current call started

vars == <<fs, attr, canEncode, run, pc, route, content, match, new_content,
          result, updated_count, reported, summary, calls, io, fs0, fsCall>>

----------------------------------------------------------------------------
(* Bounds *)

NumRoutes == 2
MaxLines == 3

----------------------------------------------------------------------------
(* Symbols *)

SP == " "
NL == "\n"
W == "w"
IMPORT == "import"
EXPORT == "export"
CONST == "const"
ASYNC == "async"
FUNCTION == "function"
DYNAMIC == "dynamic"
TRIGGER == "getServerSession"
EOS == "<eos>"

API_ROUTES == 1..NumRoutes

\* every call is given the first path of the list
PathOfFirst(r) == 1

\* The paths of API_ROUTES are pairwise distinct: route r names file r.
PathOf(r) == r

\* "export const dynamic"
MARKER == <<EXPORT, SP, CONST, SP, DYNAMIC>>

\* the directive declared with `let`: the marker is not in it
DYNAMIC_EXPORT_Let ==
    <<NL, W, SP, DYNAMIC, SP, W, NL, EXPORT, SP, W, SP, DYNAMIC, SP, W, NL>>

\* "\n// Force dynamic rendering (required for NextAuth session)\n
\*  export const dynamic = 'force-dynamic'\n"
DYNAMIC_EXPORT ==
    <<NL, W, SP, DYNAMIC, SP, W, NL>> \o MARKER \o <<SP, W, NL>>

----------------------------------------------------------------------------
(* Pure functions *)

Min(S) == CHOOSE x \in S : \A y \in S : x <= y
Max(S) == CHOOSE x \in S : \A y \in S : x >= y

At(c, k) == IF k \in 1..Len(c) THEN c[k] ELSE EOS

\* Python's `pat in c`, as the set of offsets where pat occurs.
Occurrences(c, pat) ==
    {k \in 0..(Len(c) - Len(pat)) : SubSeq(c, k + 1, k + Len(pat)) = pat}

Contains(c, pat) == Occurrences(c, pat) # {}

HasMarker(c) == Contains(c, MARKER)

HasTrigger(c) == Contains(c, <<TRIGGER>>)

IsSpace(t) == t \in {SP, NL}

RECURSIVE SpaceRun(_, _)
\* length of the longest run of \s symbols starting at k
SpaceRun(c, k) == IF IsSpace(At(c, k)) THEN 1 + SpaceRun(c, k + 1) ELSE 0

RECURSIVE NewlineRun(_, _)
\* length of the longest run of \n symbols starting at k
NewlineRun(c, k) == IF At(c, k) = NL THEN 1 + NewlineRun(c, k + 1) ELSE 0

\* group 3 at k: export\s+(async\s+)?function|export\s+const
\* \s+ is followed by a non-space symbol, so it takes the whole run.
ExportAt(c, k) ==
    LET r == SpaceRun(c, k + 1)
        t == k + 1 + r
        r2 == SpaceRun(c, t + 1)
    IN  /\ At(c, k) = EXPORT
        /\ r >= 1
        /\ \/ At(c, t) = FUNCTION
           \/ At(c, t) = ASYNC /\ r2 >= 1 /\ At(c, t + 1 + r2) = FUNCTION
           \/ At(c, t) = CONST

\* the \n closing group 1 at q, then (\n*) greedy, then group 3
TailAt(c, q) ==
    At(c, q) = NL /\ ExportAt(c, q + 1 + NewlineRun(c, q + 1))

\* .*? from p (DOTALL): the first q >= p where the tail matches, 0 if none
LazyEnd(c, p) ==
    LET Q == {q \in p..Len(c) : TailAt(c, q)}
    IN  IF Q = {} THEN 0 ELSE Min(Q)

\* the match attempt at start s: import, then \s+ greedy with backtracking
\* (longest run first), then .*? lazy.  The value is end(1), 0 on failure.
MatchAt(c, s) ==
    LET r == SpaceRun(c, s + 1)
        K == {k \in 1..r : LazyEnd(c, s + 1 + k) # 0}
    IN  IF At(c, s) = IMPORT /\ K # {}
        THEN LazyEnd(c, s + 1 + Max(K))
        ELSE 0

\* re.search(import_pattern, content, re.DOTALL): leftmost start that matches
Search(c) ==
    LET S == {s \in 1..Len(c) : MatchAt(c, s) # 0}
    IN  IF S = {} THEN 0 ELSE MatchAt(c, Min(S))

\* the slice after the insertion starts one symbol late
SpliceOffByOne(c, e) ==
    SubSeq(c, 1, e) \o DYNAMIC_EXPORT \o SubSeq(c, e + 2, Len(c))

\* content[:match.end(1)] + DYNAMIC_EXPORT + content[match.end(1):]
Splice(c, e) ==
    SubSeq(c, 1, e) \o DYNAMIC_EXPORT \o SubSeq(c, e + 1, Len(c))

----------------------------------------------------------------------------
(* Inputs *)

\* The kinds of line a route file is built from.
LineKinds ==
    { <<IMPORT, SP, TRIGGER>>,              \* import { getServerSession } ...
      <<IMPORT>>,                           \* an import broken after the keyword
      <<>>,                                 \* blank line
      <<EXPORT, SP, CONST, SP, W>>,         \* export const x
      <<EXPORT, SP, ASYNC, SP, FUNCTION>>,  \* export async function
      <<EXPORT, SP, CONST, SP, DYNAMIC>>,   \* the directive, already there
      <<W, SP, TRIGGER>>,                   \* a statement using the session
      <<EXPORT, SP, W>> }                   \* export default / export type

RECURSIVE Join(_)
\* the lines joined by newlines
Join(ls) ==
    IF Len(ls) = 0 THEN <<>>
    ELSE IF Len(ls) = 1 THEN ls[1]
    ELSE ls[1] \o <<NL>> \o Join(Tail(ls))

\* every text of at most MaxLines lines
Texts ==
    {Join(ls) : ls \in UNION {[1..n -> LineKinds] : n \in 0..MaxLines}}

\* a text add_dynamic_export rewrites
Insertable1 ==
    Join(<< <<IMPORT, SP, TRIGGER>>, <<EXPORT, SP, CONST, SP, W>> >>)

\* one text of each class add_dynamic_export tells apart: rewritten, marker
\* present without the trigger, trigger absent, trigger without the pattern
\* (a rewritten file is the text with both the marker and the trigger)
Corpus ==
    { Insertable1,
      Join(<< <<EXPORT, SP, CONST, SP, DYNAMIC>> >>),
      Join(<< <<EXPORT, SP, CONST, SP, W>> >>),
      Join(<< <<W, SP, TRIGGER>> >>) }

\* a file on disk: its attribute and text.  A missing file has no text, the
\* text of an unreadable file is never seen, and only a file that is to be
\* rewritten is ever opened for writing or written.
Files ==
    {<<"missing", <<>> >>, <<"unreadable", Insertable1>>,
     <<"readonly", Insertable1>>}
        \cup ({"ok"} \X Corpus)

\* a whole list drawn from the corpus, or one file of any text, on a sound or
\* on a failing device, followed by paths that do not exist
Disks ==
    [API_ROUTES -> Files]
        \cup {[r \in API_ROUTES |-> IF r = 1 THEN <<a, t>>
                                             ELSE <<"missing", <<>> >>] :
                a \in {"ok", "failing"}, t \in Texts}

----------------------------------------------------------------------------
(* State machine *)

Init ==
    \E d \in Disks :
        /\ fs = [r \in API_ROUTES |-> d[r][2]]
        /\ attr = [r \in API_ROUTES |-> d[r][1]]
        /\ fs0 = [r \in API_ROUTES |-> d[r][2]]
        /\ fsCall = [r \in API_ROUTES |-> d[r][2]]
        /\ canEncode \in BOOLEAN
        /\ run = 1
        /\ pc = "main"
        /\ route = 0
        /\ content = <<>>
        /\ match = 0
        /\ new_content = <<>>
        /\ result = "none"
        /\ updated_count = 0
        /\ reported = <<>>
        /\ summary = -1
        /\ calls = <<>>
        /\ io = <<>>

\* print() of a status line: the line holds a non-ASCII symbol, so it is
\* written when stdout can encode it and raises UnicodeEncodeError otherwise.
\* Inside the try block the exception goes to the generic handler.
PrintAndReturn(line, value) ==
    IF canEncode
    THEN /\ reported' = Append(reported, line)
         /\ result' = value
         /\ pc' = "returned"
    ELSE /\ pc' = "except_exception"
         /\ UNCHANGED <<reported, result>>

\* main, lines 72-74: the header (ASCII) and updated_count = 0
MainStart ==
    /\ pc = "main"
    /\ pc' = "loop"
    /\ updated_count' = 0
    /\ route' = 1
    /\ UNCHANGED <<fs, attr, canEncode, run, content, match, new_content,
                   result, reported, summary, calls, io, fs0, fsCall>>

\* main, lines 75-76: the next route of the list is passed to the call
MainCall ==
    /\ pc = "loop"
    /\ route \in API_ROUTES
    /\ pc' = "read"
    /\ calls' = Append(calls, route)
    /\ fsCall' = fs
    /\ reported' = <<>>
    /\ result' = "none"
    /\ content' = <<>>
    /\ match' = 0
    /\ new_content' = <<>>
    /\ UNCHANGED <<fs, attr, canEncode, run, route, updated_count, summary,
                   io, fs0>>

\* lines 34-35: open for reading and read
ReadFile ==
    /\ pc = "read"
    /\ io' = Append(io, [op |-> "r", file |-> PathOf(route)])
    /\ IF attr[PathOf(route)] = "missing"
       THEN pc' = "except_notfound" /\ UNCHANGED content
       ELSE IF attr[PathOf(route)] = "unreadable"
       THEN pc' = "except_exception" /\ UNCHANGED content
       ELSE pc' = "check_marker" /\ content' = fs[PathOf(route)]
    /\ UNCHANGED <<fs, attr, canEncode, run, route, match, new_content,
                   result, updated_count, reported, summary, calls, fs0,
                   fsCall>>

\* lines 38-40
CheckMarker ==
    /\ pc = "check_marker"
    /\ IF HasMarker(content)
       THEN PrintAndReturn("already-present", "False")
       ELSE pc' = "check_trigger" /\ UNCHANGED <<reported, result>>
    /\ UNCHANGED <<fs, attr, canEncode, run, route, content, match,
                   new_content, updated_count, summary, calls, io, fs0,
                   fsCall>>

\* lines 43-45
CheckTrigger ==
    /\ pc = "check_trigger"
    /\ IF ~HasTrigger(content)
       THEN PrintAndReturn("not-applicable", "False")
       ELSE pc' = "search" /\ UNCHANGED <<reported, result>>
    /\ UNCHANGED <<fs, attr, canEncode, run, route, content, match,
                   new_content, updated_count, summary, calls, io, fs0,
                   fsCall>>

\* lines 48-53 and 60-62
SearchAndSplice ==
    /\ pc = "search"
    /\ match' = Search(content)
    /\ IF match' # 0
       THEN /\ new_content' = Splice(content, match')
            /\ pc' = "open_write"
            /\ UNCHANGED <<reported, result>>
       ELSE /\ PrintAndReturn("no-insertion-point", "False")
            /\ UNCHANGED new_content
    /\ UNCHANGED <<fs, attr, canEncode, run, route, content, updated_count,
                   summary, calls, io, fs0, fsCall>>

\* line 55: open(file_path, 'w') truncates the file, or raises PermissionError
OpenWrite ==
    /\ pc = "open_write"
    /\ io' = Append(io, [op |-> "w", file |-> PathOf(route)])
    /\ IF attr[PathOf(route)] = "readonly"
       THEN pc' = "except_exception" /\ UNCHANGED fs
       ELSE pc' = "write" /\ fs' = [fs EXCEPT ![PathOf(route)] = <<>>]
    /\ UNCHANGED <<attr, canEncode, run, route, content, match, new_content,
                   result, updated_count, reported, summary, calls, fs0,
                   fsCall>>

\* line 56 and the close at the end of the with block: the whole text
\* reaches the disk
WriteAll ==
    /\ pc = "write"
    /\ attr[PathOf(route)] # "failing"
    /\ fs' = [fs EXCEPT ![PathOf(route)] = new_content]
    /\ pc' = "print_added"
    /\ UNCHANGED <<attr, canEncode, run, route, content, match, new_content,
                   result, updated_count, reported, summary, calls, io, fs0,
                   fsCall>>

\* line 56 and the close: the write or the flush raises OSError (disk full,
\* I/O error) after some prefix of the text has reached the disk
WriteFails ==
    /\ pc = "write"
    /\ attr[PathOf(route)] = "failing"
    /\ \E k \in 0..(Len(new_content) - 1) :
           fs' = [fs EXCEPT ![PathOf(route)] = SubSeq(new_content, 1, k)]
    /\ pc' = "except_exception"
    /\ UNCHANGED <<attr, canEncode, run, route, content, match, new_content,
                   result, updated_count, reported, summary, calls, io, fs0,
                   fsCall>>

\* lines 58-59
PrintAdded ==
    /\ pc = "print_added"
    /\ PrintAndReturn("updated", "True")
    /\ UNCHANGED <<fs, attr, canEncode, run, route, content, match,
                   new_content, updated_count, summary, calls, io, fs0,
                   fsCall>>

\* A print() inside an except clause is outside the try block: when it
\* raises, the exception leaves add_dynamic_export and main.
HandlerPrint(line) ==
    IF canEncode
    THEN /\ reported' = Append(reported, line)
         /\ result' = "False"
         /\ pc' = "returned"
    ELSE /\ pc' = "traceback"
         /\ UNCHANGED <<reported, result>>

\* lines 64-66
ExceptNotFound ==
    /\ pc = "except_notfound"
    /\ HandlerPrint("not-found")
    /\ UNCHANGED <<fs, attr, canEncode, run, route, content, match,
                   new_content, updated_count, summary, calls, io, fs0,
                   fsCall>>

\* lines 67-69
ExceptException ==
    /\ pc = "except_exception"
    /\ HandlerPrint("error")
    /\ UNCHANGED <<fs, attr, canEncode, run, route, content, match,
                   new_content, updated_count, summary, calls, io, fs0,
                   fsCall>>

\* main, lines 76-77, and the step of the for loop
MainCount ==
    /\ pc = "returned"
    /\ updated_count' = IF result = "True" THEN updated_count + 1
                                         ELSE updated_count
    /\ route' = route + 1
    /\ pc' = "loop"
    /\ UNCHANGED <<fs, attr, canEncode, run, content, match, new_content,
                   result, reported, summary, calls, io, fs0, fsCall>>

\* main, line 79: the list is exhausted, the summary (ASCII) is printed
MainSummary ==
    /\ pc = "loop"
    /\ route \notin API_ROUTES
    /\ summary' = updated_count
    /\ pc' = "done"
    /\ UNCHANGED <<fs, attr, canEncode, run, route, content, match,
                   new_content, result, updated_count, reported, calls, io,
                   fs0, fsCall>>

\* lines 81-82: the script is executed again, the disk left as it is
RunAgain ==
    /\ pc \in {"done", "traceback"}
    /\ run = 1
    /\ run' = 2
    /\ pc' = "main"
    /\ route' = 0
    /\ content' = <<>>
    /\ match' = 0
    /\ new_content' = <<>>
    /\ result' = "none"
    /\ updated_count' = 0
    /\ reported' = <<>>
    /\ summary' = -1
    /\ calls' = <<>>
    /\ io' = <<>>
    /\ fs0' = fs
    /\ fsCall' = fs
    /\ UNCHANGED <<fs, attr, canEncode>>

Next ==
    \/ MainStart
    \/ MainCall
    \/ ReadFile
    \/ CheckMarker
    \/ CheckTrigger
    \/ SearchAndSplice
    \/ OpenWrite
    \/ WriteAll
    \/ WriteFails
    \/ PrintAdded
    \/ ExceptNotFound
    \/ ExceptException
    \/ MainCount
    \/ MainSummary
    \/ RunAgain

Spec == Init /\ [][Next]_vars

----------------------------------------------------------------------------
(* Vocabulary of the properties *)

\* the file the current call was given
Cur == route

InCall ==
    pc \in {"read", "check_marker", "check_trigger", "search", "open_write",
            "write", "print_added", "except_notfound", "except_exception",
            "returned", "traceback"}

\* the call is over: it returned, or an exception left it
CallEnded == pc \in {"returned", "traceback"}

RunEnded == pc \in {"done", "traceback"}

\* the call rewrote the file completely
Rewritten == pc = "print_added" \/ (pc = "returned" /\ result = "True")

Readable(d, f) == d[f] \in {"ok", "readonly", "failing"}

\* trigger present, marker absent, insertion pattern present
Insertable(t) ==
    /\ Contains(t, <<TRIGGER>>)
    /\ ~Contains(t, MARKER)
    /\ Search(t) # 0

\* the three logical no-op conditions
NoOpText(t) ==
    \/ Contains(t, MARKER)
    \/ ~Contains(t, <<TRIGGER>>)
    \/ Search(t) = 0

LineStarts(t) == {k \in 1..Len(t) : k = 1 \/ t[k - 1] = NL}

ImportLines(t) == {k \in LineStarts(t) : t[k] = IMPORT}

ExportLines(t) == {k \in LineStarts(t) : t[k] = EXPORT}

\* t with the n symbols after offset p removed
Delete(t, p, n) == SubSeq(t, 1, p) \o SubSeq(t, p + n + 1, Len(t))

Written(f) == \E k \in DOMAIN io : io[k] = [op |-> "w", file |-> f]

----------------------------------------------------------------------------
(* Properties *)

C2_AfterImportsBeforeExports ==
    Rewritten =>
        LET t == fsCall[Cur]
        IN  /\ ImportLines(t) # {}
            /\ \A k \in ImportLines(t) : k <= match
            /\ \A k \in ExportLines(t) : k > match
            /\ \A k \in LineStarts(t) :
                   (Min(ImportLines(t)) <= k /\ k <= match) => t[k] = IMPORT

C4_NoOpLeavesFile ==
    (InCall /\ Readable(attr, Cur) /\ NoOpText(fsCall[Cur])) =>
        /\ ~Written(Cur)
        /\ fs[Cur] = fsCall[Cur]
        /\ CallEnded => result = "False"

\* the outcome the fixed order of checks selects for file f
Expected(f) ==
    IF attr[f] = "missing" THEN "not-found"
    ELSE IF Contains(fsCall[f], MARKER) THEN "already-present"
    ELSE IF ~Contains(fsCall[f], <<TRIGGER>>) THEN "not-applicable"
    ELSE IF Search(fsCall[f]) = 0 THEN "no-insertion-point"
    ELSE "updated"

\* C5: each call on a missing or readable path reports exactly one outcome,
\* the one the checks select in their fixed order: not-found, else
\* already-present (with or without the trigger), else not-applicable, else
\* no-insertion-point, else updated.
C5_OneOutcomeInOrder ==
    (CallEnded /\ attr[Cur] # "unreadable") => reported = <<Expected(Cur)>>

\* C6: no exception leaves add_dynamic_export, and when main reaches its
\* summary line it has invoked add_dynamic_export exactly once on every path
\* of API_ROUTES, in list order.
C6_NothingEscapes ==
    /\ pc # "traceback"
    /\ pc = "done" => calls = [r \in API_ROUTES |-> r]

\* the files that satisfy the insertion preconditions when the run starts
Candidates == {f \in API_ROUTES : Readable(attr, f) /\ Insertable(fs0[f])}

Mutated == {f \in API_ROUTES : fs[f] # fs0[f]}

\* C7: when a run is over, the count main printed equals the number M of
\* files that satisfied the insertion preconditions, and exactly M files
\* differ on disk from their text before the run.
C7_CountEqualsCandidates ==
    RunEnded =>
        /\ summary = Cardinality(Candidates)
        /\ Cardinality(Mutated) = Cardinality(Candidates)

\* an except clause of the current call has been entered
HandlerEntered ==
    \/ pc \in {"except_notfound", "except_exception", "traceback"}
    \/ (pc = "returned" /\ reported \in {<<"not-found">>, <<"error">>})

\* C8: whenever a call ends in the not-found or the generic-error outcome,
\* whatever step raised, the file is as it was before the call and the call
\* does not count as an update.
C8_ErrorMeansUntouched ==
    HandlerEntered => (fs[Cur] = fsCall[Cur] /\ result # "True")

\* C9: processing is sequential and confined to the list: the opens of a run
\* go through the files in list order, each file opened for reading at most
\* once and then for writing at most once, every open made by the call on that
\* very path; a file no call opened for writing is as it was when the run
\* began, and during a call every other file is as it was when the call began.
C9_SequentialAndConfined ==
    /\ \A k \in DOMAIN io :
           /\ io[k].file \in API_ROUTES
           /\ \E n \in DOMAIN calls : calls[n] = io[k].file
           /\ (k = Len(io) /\ InCall /\ pc # "read") => io[k].file = route
    /\ \A j, k \in DOMAIN io :
           j < k =>
               /\ io[j].file <= io[k].file
               /\ io[j].file = io[k].file =>
                      (k = j + 1 /\ io[j].op = "r" /\ io[k].op = "w")
    /\ \A f \in API_ROUTES : ~Written(f) => fs[f] = fs0[f]
    /\ \A f \in API_ROUTES : (InCall /\ f # route) => fs[f] = fsCall[f]

\* the second file of the list is being rewritten after the first one was
C9_Witness ==
    /\ pc = "print_added"
    /\ route = 2
    /\ io = << [op |-> "r", file |-> 1], [op |-> "w", file |-> 1],
               [op |-> "r", file |-> 2], [op |-> "w", file |-> 2] >>
    /\ fs[1] # fs0[1]
    /\ fs[2] # fs0[2]

\* C10: the second of two runs in a row modifies no file and prints an
\* updated count of 0.
C10_SecondRunChangesNothing ==
    run = 2 =>
        /\ fs = fs0
        /\ pc = "done" => summary = 0

====
